---- MODULE Spec2Model ----
(***************************************************************************)
(* A model of the two utility modules of the repository:                   *)
(*   q2_process_metadata.py  parse_config, validate_config,                *)
(*                           generate_sample_data, calculate_statistics    *)
(*   q3_data_utils.py        clean_data, fill_missing, filter_data,        *)
(*                           transform_types, create_bins,                 *)
(*                           summarize_by_group                            *)
(* Python strings are sequences of one-character strings, so that strip,   *)
(* split, isdigit, int and the formatting of integers are computed.        *)
(***************************************************************************)
EXTENDS Integers, Sequences, FiniteSets, TLC

VARIABLES
    config,      \* validate_config: the config dict, a sequence of <<key, value>> in insertion order
    validation,  \* validate_config: its outcome
    cfgfile,     \* parse_config: the lines of the config file
    parsed,      \* parse_config: its outcome
    files,       \* generate_sample_data: the file system, path -> content
    lastgen,     \* generate_sample_data: the last call
    data,        \* calculate_statistics: the list of numbers
    stats,       \* calculate_statistics: its outcome
    heap,        \* q3: the DataFrame objects, by reference
    call,        \* q3: the last call of a table function
    orig         \* q3: the caller's table as it was loaded

vars == <<config, validation, cfgfile, parsed, files, lastgen, data, stats, heap, call, orig>>

(***************************************************************************)
(* Helpers on sequences                                                    *)
(***************************************************************************)
Range(s) == {s[i] : i \in DOMAIN s}

SeqsUpTo(S, n) == UNION {[1..k -> S] : k \in 0..n}

(***************************************************************************)
(* Python str and int                                                      *)
(***************************************************************************)
\* A character is a one-character string; a character beyond Latin-1 is
\* written by its code point, "U+0663".
AsciiDigits == <<"0", "1", "2", "3", "4", "5", "6", "7", "8", "9">>

\* The decimal digits (Unicode category Nd) of every script, the ASCII digits
\* included: the characters of value 0, of value 1, and so on to 9.
\* str.isdigit() is true of them and int() reads them by their value.
DecimalDigits ==
    <<{"0", "U+0660", "U+06F0", "U+07C0", "U+0966", "U+09E6", "U+0A66", "U+0AE6", "U+0B66",
       "U+0BE6", "U+0C66", "U+0CE6", "U+0D66", "U+0DE6", "U+0E50", "U+0ED0", "U+0F20", "U+1040",
       "U+1090", "U+17E0", "U+1810", "U+1946", "U+19D0", "U+1A80", "U+1A90", "U+1B50", "U+1BB0",
       "U+1C40", "U+1C50", "U+A620", "U+A8D0", "U+A900", "U+A9D0", "U+A9F0", "U+AA50", "U+ABF0",
       "U+FF10", "U+104A0", "U+10D30", "U+11066", "U+110F0", "U+11136", "U+111D0", "U+112F0",
       "U+11450", "U+114D0", "U+11650", "U+116C0", "U+11730", "U+118E0", "U+11950", "U+11C50",
       "U+11D50", "U+11DA0", "U+16A60", "U+16AC0", "U+16B50", "U+1D7CE", "U+1D7D8", "U+1D7E2",
       "U+1D7EC", "U+1D7F6", "U+1E140", "U+1E2F0", "U+1E950", "U+1FBF0"},
      {"1", "U+0661", "U+06F1", "U+07C1", "U+0967", "U+09E7", "U+0A67", "U+0AE7", "U+0B67",
       "U+0BE7", "U+0C67", "U+0CE7", "U+0D67", "U+0DE7", "U+0E51", "U+0ED1", "U+0F21", "U+1041",
       "U+1091", "U+17E1", "U+1811", "U+1947", "U+19D1", "U+1A81", "U+1A91", "U+1B51", "U+1BB1",
       "U+1C41", "U+1C51", "U+A621", "U+A8D1", "U+A901", "U+A9D1", "U+A9F1", "U+AA51", "U+ABF1",
       "U+FF11", "U+104A1", "U+10D31", "U+11067", "U+110F1", "U+11137", "U+111D1", "U+112F1",
       "U+11451", "U+114D1", "U+11651", "U+116C1", "U+11731", "U+118E1", "U+11951", "U+11C51",
       "U+11D51", "U+11DA1", "U+16A61", "U+16AC1", "U+16B51", "U+1D7CF", "U+1D7D9", "U+1D7E3",
       "U+1D7ED", "U+1D7F7", "U+1E141", "U+1E2F1", "U+1E951", "U+1FBF1"},
      {"2", "U+0662", "U+06F2", "U+07C2", "U+0968", "U+09E8", "U+0A68", "U+0AE8", "U+0B68",
       "U+0BE8", "U+0C68", "U+0CE8", "U+0D68", "U+0DE8", "U+0E52", "U+0ED2", "U+0F22", "U+1042",
       "U+1092", "U+17E2", "U+1812", "U+1948", "U+19D2", "U+1A82", "U+1A92", "U+1B52", "U+1BB2",
       "U+1C42", "U+1C52", "U+A622", "U+A8D2", "U+A902", "U+A9D2", "U+A9F2", "U+AA52", "U+ABF2",
       "U+FF12", "U+104A2", "U+10D32", "U+11068", "U+110F2", "U+11138", "U+111D2", "U+112F2",
       "U+11452", "U+114D2", "U+11652", "U+116C2", "U+11732", "U+118E2", "U+11952", "U+11C52",
       "U+11D52", "U+11DA2", "U+16A62", "U+16AC2", "U+16B52", "U+1D7D0", "U+1D7DA", "U+1D7E4",
       "U+1D7EE", "U+1D7F8", "U+1E142", "U+1E2F2", "U+1E952", "U+1FBF2"},
      {"3", "U+0663", "U+06F3", "U+07C3", "U+0969", "U+09E9", "U+0A69", "U+0AE9", "U+0B69",
       "U+0BE9", "U+0C69", "U+0CE9", "U+0D69", "U+0DE9", "U+0E53", "U+0ED3", "U+0F23", "U+1043",
       "U+1093", "U+17E3", "U+1813", "U+1949", "U+19D3", "U+1A83", "U+1A93", "U+1B53", "U+1BB3",
       "U+1C43", "U+1C53", "U+A623", "U+A8D3", "U+A903", "U+A9D3", "U+A9F3", "U+AA53", "U+ABF3",
       "U+FF13", "U+104A3", "U+10D33", "U+11069", "U+110F3", "U+11139", "U+111D3", "U+112F3",
       "U+11453", "U+114D3", "U+11653", "U+116C3", "U+11733", "U+118E3", "U+11953", "U+11C53",
       "U+11D53", "U+11DA3", "U+16A63", "U+16AC3", "U+16B53", "U+1D7D1", "U+1D7DB", "U+1D7E5",
       "U+1D7EF", "U+1D7F9", "U+1E143", "U+1E2F3", "U+1E953", "U+1FBF3"},
      {"4", "U+0664", "U+06F4", "U+07C4", "U+096A", "U+09EA", "U+0A6A", "U+0AEA", "U+0B6A",
       "U+0BEA", "U+0C6A", "U+0CEA", "U+0D6A", "U+0DEA", "U+0E54", "U+0ED4", "U+0F24", "U+1044",
       "U+1094", "U+17E4", "U+1814", "U+194A", "U+19D4", "U+1A84", "U+1A94", "U+1B54", "U+1BB4",
       "U+1C44", "U+1C54", "U+A624", "U+A8D4", "U+A904", "U+A9D4", "U+A9F4", "U+AA54", "U+ABF4",
       "U+FF14", "U+104A4", "U+10D34", "U+1106A", "U+110F4", "U+1113A", "U+111D4", "U+112F4",
       "U+11454", "U+114D4", "U+11654", "U+116C4", "U+11734", "U+118E4", "U+11954", "U+11C54",
       "U+11D54", "U+11DA4", "U+16A64", "U+16AC4", "U+16B54", "U+1D7D2", "U+1D7DC", "U+1D7E6",
       "U+1D7F0", "U+1D7FA", "U+1E144", "U+1E2F4", "U+1E954", "U+1FBF4"},
      {"5", "U+0665", "U+06F5", "U+07C5", "U+096B", "U+09EB", "U+0A6B", "U+0AEB", "U+0B6B",
       "U+0BEB", "U+0C6B", "U+0CEB", "U+0D6B", "U+0DEB", "U+0E55", "U+0ED5", "U+0F25", "U+1045",
       "U+1095", "U+17E5", "U+1815", "U+194B", "U+19D5", "U+1A85", "U+1A95", "U+1B55", "U+1BB5",
       "U+1C45", "U+1C55", "U+A625", "U+A8D5", "U+A905", "U+A9D5", "U+A9F5", "U+AA55", "U+ABF5",
       "U+FF15", "U+104A5", "U+10D35", "U+1106B", "U+110F5", "U+1113B", "U+111D5", "U+112F5",
       "U+11455", "U+114D5", "U+11655", "U+116C5", "U+11735", "U+118E5", "U+11955", "U+11C55",
       "U+11D55", "U+11DA5", "U+16A65", "U+16AC5", "U+16B55", "U+1D7D3", "U+1D7DD", "U+1D7E7",
       "U+1D7F1", "U+1D7FB", "U+1E145", "U+1E2F5", "U+1E955", "U+1FBF5"},
      {"6", "U+0666", "U+06F6", "U+07C6", "U+096C", "U+09EC", "U+0A6C", "U+0AEC", "U+0B6C",
       "U+0BEC", "U+0C6C", "U+0CEC", "U+0D6C", "U+0DEC", "U+0E56", "U+0ED6", "U+0F26", "U+1046",
       "U+1096", "U+17E6", "U+1816", "U+194C", "U+19D6", "U+1A86", "U+1A96", "U+1B56", "U+1BB6",
       "U+1C46", "U+1C56", "U+A626", "U+A8D6", "U+A906", "U+A9D6", "U+A9F6", "U+AA56", "U+ABF6",
       "U+FF16", "U+104A6", "U+10D36", "U+1106C", "U+110F6", "U+1113C", "U+111D6", "U+112F6",
       "U+11456", "U+114D6", "U+11656", "U+116C6", "U+11736", "U+118E6", "U+11956", "U+11C56",
       "U+11D56", "U+11DA6", "U+16A66", "U+16AC6", "U+16B56", "U+1D7D4", "U+1D7DE", "U+1D7E8",
       "U+1D7F2", "U+1D7FC", "U+1E146", "U+1E2F6", "U+1E956", "U+1FBF6"},
      {"7", "U+0667", "U+06F7", "U+07C7", "U+096D", "U+09ED", "U+0A6D", "U+0AED", "U+0B6D",
       "U+0BED", "U+0C6D", "U+0CED", "U+0D6D", "U+0DED", "U+0E57", "U+0ED7", "U+0F27", "U+1047",
       "U+1097", "U+17E7", "U+1817", "U+194D", "U+19D7", "U+1A87", "U+1A97", "U+1B57", "U+1BB7",
       "U+1C47", "U+1C57", "U+A627", "U+A8D7", "U+A907", "U+A9D7", "U+A9F7", "U+AA57", "U+ABF7",
       "U+FF17", "U+104A7", "U+10D37", "U+1106D", "U+110F7", "U+1113D", "U+111D7", "U+112F7",
       "U+11457", "U+114D7", "U+11657", "U+116C7", "U+11737", "U+118E7", "U+11957", "U+11C57",
       "U+11D57", "U+11DA7", "U+16A67", "U+16AC7", "U+16B57", "U+1D7D5", "U+1D7DF", "U+1D7E9",
       "U+1D7F3", "U+1D7FD", "U+1E147", "U+1E2F7", "U+1E957", "U+1FBF7"},
      {"8", "U+0668", "U+06F8", "U+07C8", "U+096E", "U+09EE", "U+0A6E", "U+0AEE", "U+0B6E",
       "U+0BEE", "U+0C6E", "U+0CEE", "U+0D6E", "U+0DEE", "U+0E58", "U+0ED8", "U+0F28", "U+1048",
       "U+1098", "U+17E8", "U+1818", "U+194E", "U+19D8", "U+1A88", "U+1A98", "U+1B58", "U+1BB8",
       "U+1C48", "U+1C58", "U+A628", "U+A8D8", "U+A908", "U+A9D8", "U+A9F8", "U+AA58", "U+ABF8",
       "U+FF18", "U+104A8", "U+10D38", "U+1106E", "U+110F8", "U+1113E", "U+111D8", "U+112F8",
       "U+11458", "U+114D8", "U+11658", "U+116C8", "U+11738", "U+118E8", "U+11958", "U+11C58",
       "U+11D58", "U+11DA8", "U+16A68", "U+16AC8", "U+16B58", "U+1D7D6", "U+1D7E0", "U+1D7EA",
       "U+1D7F4", "U+1D7FE", "U+1E148", "U+1E2F8", "U+1E958", "U+1FBF8"},
      {"9", "U+0669", "U+06F9", "U+07C9", "U+096F", "U+09EF", "U+0A6F", "U+0AEF", "U+0B6F",
       "U+0BEF", "U+0C6F", "U+0CEF", "U+0D6F", "U+0DEF", "U+0E59", "U+0ED9", "U+0F29", "U+1049",
       "U+1099", "U+17E9", "U+1819", "U+194F", "U+19D9", "U+1A89", "U+1A99", "U+1B59", "U+1BB9",
       "U+1C49", "U+1C59", "U+A629", "U+A8D9", "U+A909", "U+A9D9", "U+A9F9", "U+AA59", "U+ABF9",
       "U+FF19", "U+104A9", "U+10D39", "U+1106F", "U+110F9", "U+1113F", "U+111D9", "U+112F9",
       "U+11459", "U+114D9", "U+11659", "U+116C9", "U+11739", "U+118E9", "U+11959", "U+11C59",
       "U+11D59", "U+11DA9", "U+16A69", "U+16AC9", "U+16B59", "U+1D7D7", "U+1D7E1", "U+1D7EB",
       "U+1D7F5", "U+1D7FF", "U+1E149", "U+1E2F9", "U+1E959", "U+1FBF9"}>>

\* The value of a decimal digit character, -1 for any other character.
DigitVal(c) ==
    IF \E i \in 1..10 : c \in DecimalDigits[i]
    THEN (CHOOSE i \in 1..10 : c \in DecimalDigits[i]) - 1
    ELSE -1

\* The digits that are no decimal digits (Numeric_Type=Digit outside Nd):
\* superscripts, subscripts, circled and other decorated digits.
\* str.isdigit() is true of them and int() rejects them.
OtherDigits ==
    {"¹", "²", "³",
     "U+1369", "U+136A", "U+136B", "U+136C", "U+136D", "U+136E", "U+136F", "U+1370", "U+1371",
     "U+19DA", "U+2070", "U+2074", "U+2075", "U+2076", "U+2077", "U+2078", "U+2079", "U+2080",
     "U+2081", "U+2082", "U+2083", "U+2084", "U+2085", "U+2086", "U+2087", "U+2088", "U+2089",
     "U+2460", "U+2461", "U+2462", "U+2463", "U+2464", "U+2465", "U+2466", "U+2467", "U+2468",
     "U+2474", "U+2475", "U+2476", "U+2477", "U+2478", "U+2479", "U+247A", "U+247B", "U+247C",
     "U+2488", "U+2489", "U+248A", "U+248B", "U+248C", "U+248D", "U+248E", "U+248F", "U+2490",
     "U+24EA", "U+24F5", "U+24F6", "U+24F7", "U+24F8", "U+24F9", "U+24FA", "U+24FB", "U+24FC",
     "U+24FD", "U+24FF", "U+2776", "U+2777", "U+2778", "U+2779", "U+277A", "U+277B", "U+277C",
     "U+277D", "U+277E", "U+2780", "U+2781", "U+2782", "U+2783", "U+2784", "U+2785", "U+2786",
     "U+2787", "U+2788", "U+278A", "U+278B", "U+278C", "U+278D", "U+278E", "U+278F", "U+2790",
     "U+2791", "U+2792", "U+10A40", "U+10A41", "U+10A42", "U+10A43", "U+10E60", "U+10E61",
     "U+10E62", "U+10E63", "U+10E64", "U+10E65", "U+10E66", "U+10E67", "U+10E68", "U+11052",
     "U+11053", "U+11054", "U+11055", "U+11056", "U+11057", "U+11058", "U+11059", "U+1105A",
     "U+1F100", "U+1F101", "U+1F102", "U+1F103", "U+1F104", "U+1F105", "U+1F106", "U+1F107",
     "U+1F108", "U+1F109", "U+1F10A"}

\* str.isdigit(): non-empty and every character a digit.
isdigit(s) ==
    /\ Len(s) > 0
    /\ \A i \in DOMAIN s : DigitVal(s[i]) >= 0 \/ s[i] \in OtherDigits

\* f"{n}": the decimal text of an integer.
RECURSIVE NatToStr(_)
NatToStr(n) ==
    IF n < 10 THEN <<AsciiDigits[n + 1]>>
    ELSE Append(NatToStr(n \div 10), AsciiDigits[(n % 10) + 1])

IntToStr(n) == IF n < 0 THEN <<"-">> \o NatToStr(0 - n) ELSE NatToStr(n)

\* Python's integers are unbounded.  An integer is [neg, mag]: mag the values
\* of its decimal digits without leading zeros, <<>> for zero.
Magnitude(s) ==
    LET nz == {i \in DOMAIN s : DigitVal(s[i]) # 0}
    IN  IF nz = {} THEN <<>>
        ELSE LET f == CHOOSE i \in nz : \A j \in nz : i <= j
             IN  [k \in 1..(Len(s) - f + 1) |-> DigitVal(s[f + k - 1])]

\* The integer of a small natural number, as the literals 0 and 1 of the code.
Small(n) == [neg |-> FALSE, mag |-> Magnitude(NatToStr(n))]

MagLess(x, y) ==
    \/ Len(x) < Len(y)
    \/ /\ Len(x) = Len(y)
       /\ \E i \in DOMAIN x : x[i] < y[i] /\ \A j \in 1..(i - 1) : x[j] = y[j]

\* a < b
IntLess(a, b) ==
    IF a.neg # b.neg THEN a.neg
    ELSE IF a.neg THEN MagLess(b.mag, a.mag) ELSE MagLess(a.mag, b.mag)

RECURSIVE MagValue(_)
MagValue(m) ==
    IF Len(m) = 0 THEN 0 ELSE 10 * MagValue(SubSeq(m, 1, Len(m) - 1)) + m[Len(m)]

\* The number of an integer, for the integers the model counts with.
Number(v) == IF v.neg THEN 0 - MagValue(v.mag) ELSE MagValue(v.mag)

\* sys.get_int_max_str_digits(): the longest digit string int() converts.
IntMaxStrDigits == 4300

\* U+001C..U+001F, the separators that str.strip() removes and int() does not.
Separators == {"", "", "", ""}

\* The characters str.isspace() is true of: U+0009..U+000D, U+001C..U+001F,
\* the space, U+0085, U+00A0 and the Unicode spaces beyond Latin-1.
Whitespace ==
    {" ", "\t", "\n", "\r", "\f", "", "", " ",
     "U+1680", "U+2000", "U+2001", "U+2002", "U+2003", "U+2004", "U+2005", "U+2006", "U+2007",
     "U+2008", "U+2009", "U+200A", "U+2028", "U+2029", "U+202F", "U+205F", "U+3000"} \cup Separators

IsWhite(c) == c \in Whitespace

\* str.strip(): leading and trailing whitespace removed.
RECURSIVE lstrip(_)
lstrip(s) == IF Len(s) > 0 /\ IsWhite(s[1]) THEN lstrip(Tail(s)) ELSE s

RECURSIVE rstrip(_)
rstrip(s) ==
    IF Len(s) > 0 /\ IsWhite(s[Len(s)]) THEN rstrip(SubSeq(s, 1, Len(s) - 1)) ELSE s

strip(s) == rstrip(lstrip(s))

\* The whitespace int() ignores around the number.
RECURSIVE IntTrim(_)
IntTrim(s) ==
    IF Len(s) > 0 /\ s[1] \in Whitespace \ Separators THEN IntTrim(Tail(s))
    ELSE IF Len(s) > 0 /\ s[Len(s)] \in Whitespace \ Separators
    THEN IntTrim(SubSeq(s, 1, Len(s) - 1))
    ELSE s

\* int(s): [ok, val]; ok is FALSE where Python raises ValueError.  Surrounding
\* whitespace is ignored; then an optional sign and decimal digits, with
\* single underscores allowed between digits; more than IntMaxStrDigits
\* digits, leading zeros counted, are refused.
int(s) ==
    LET t == IntTrim(s)
        signed == Len(t) > 0 /\ t[1] \in {"-", "+"}
        body == IF signed THEN Tail(t) ELSE t
        good == /\ Len(body) > 0
                /\ \A i \in DOMAIN body : DigitVal(body[i]) >= 0 \/ body[i] = "_"
                /\ body[1] # "_" /\ body[Len(body)] # "_"
                /\ \A i \in 1..(Len(body) - 1) : ~(body[i] = "_" /\ body[i + 1] = "_")
        digits == SelectSeq(body, LAMBDA c : c # "_")
    IN  IF ~good \/ Len(digits) > IntMaxStrDigits THEN [ok |-> FALSE, val |-> Small(0)]
        ELSE [ok |-> TRUE,
              val |-> [neg |-> signed /\ t[1] = "-" /\ Magnitude(digits) # <<>>,
                       mag |-> Magnitude(digits)]]


(***************************************************************************)
(* validate_config                                                         *)
(***************************************************************************)
\* A dict is a sequence of <<key, value>> pairs with distinct keys.
Keys(d) == {d[i][1] : i \in DOMAIN d}

HasKey(d, k) == k \in Keys(d)

\* d[k] for a key of d.
Get(d, k) == d[CHOOSE i \in DOMAIN d : d[i][1] = k][2]

\* The outcome of one branch of the loop: "True", "False", or the exception raised.
Verdict(ok, b) == IF ~ok THEN "ValueError" ELSE IF b THEN "True" ELSE "False"

RowsRule(value) ==
    IF isdigit(value) THEN Verdict(int(value).ok, IntLess(Small(0), int(value).val)) ELSE "False"

MinRule(value) ==
    IF isdigit(value) THEN Verdict(int(value).ok, ~IntLess(int(value).val, Small(1))) ELSE "False"

\* config.get('sample_data_min') is None when the key is absent, and
\* None.isdigit() raises AttributeError; `and` evaluates it only when
\* value.isdigit() is true.
MaxRule(d, value) ==
    IF ~isdigit(value) THEN "False"
    ELSE IF ~HasKey(d, "sample_data_min") THEN "AttributeError"
    ELSE LET min_value == Get(d, "sample_data_min")
         IN  IF ~isdigit(min_value) THEN "False"
             ELSE Verdict(int(value).ok /\ int(min_value).ok,
                          IntLess(int(min_value).val, int(value).val))

KeyRule(d, key, value) ==
    IF key = "sample_data_rows" THEN RowsRule(value)
    ELSE IF key = "sample_data_min" THEN MinRule(value)
    ELSE IF key = "sample_data_max" THEN MaxRule(d, value)
    ELSE "False"

\* The loop over config.items(): the entries validated so far, as a sequence
\* of <<key, boolean>>, until the first exception.
RECURSIVE ValidateLoop(_, _, _)
ValidateLoop(d, i, acc) ==
    IF i > Len(d) THEN [exc |-> "none", val |-> acc]
    ELSE LET v == KeyRule(d, d[i][1], d[i][2])
         IN  IF v \in {"True", "False"}
             THEN ValidateLoop(d, i + 1, Append(acc, <<d[i][1], v = "True">>))
             ELSE [exc |-> v, val |-> <<>>]

validate_config(d) ==
    IF Len(d) # 3 THEN [exc |-> "ValueError", val |-> <<>>]
    ELSE ValidateLoop(d, 1, <<>>)

\* The inputs: keys and values of a config.
ConfigKeys == {"sample_data_rows", "sample_data_min", "sample_data_max", "seed", "name"}

ConfigValues ==
    {<<>>, <<"0">>, <<"1">>, <<"2">>, <<"1", "0">>, <<"0", "2">>,
     <<"-", "1">>, <<"+", "1">>, <<"a">>, <<"1", "a">>, <<"²">>, <<"1", "³">>,
     <<"U+0663">>}

ConfigLens == {2, 3}

\* Digit strings at and just beyond the length int() converts.
LongValues == {[i \in 1..n |-> "1"] : n \in {IntMaxStrDigits, IntMaxStrDigits + 1}}

\* Configs of the three keys with one long value.
LongConfigs ==
    {<<<<k1, v1>>, <<k2, v2>>, <<k3, v3>>>> :
        <<k1, k2, k3>> \in {<<"sample_data_rows", "sample_data_min", "sample_data_max">>,
                            <<"sample_data_max", "sample_data_rows", "sample_data_min">>},
        <<v1, v2, v3>> \in UNION {{<<l, <<"1">>, <<"2">>>>, <<<<"1">>, l, <<"2">>>>,
                                   <<<<"2">>, <<"1">>, l>>} : l \in LongValues}}

Configs ==
    {d \in UNION {[1..n -> ConfigKeys \X ConfigValues] : n \in ConfigLens} :
        \A i, j \in DOMAIN d : i # j => d[i][1] # d[j][1]}
    \cup LongConfigs

NotRun == [exc |-> "notrun", val |-> <<>>]

InitValidate ==
    /\ config \in Configs
    /\ validation = NotRun
    /\ cfgfile = <<>> /\ parsed = NotRun
    /\ files = <<>> /\ lastgen = <<>>
    /\ data = <<>> /\ stats = NotRun
    /\ heap = <<>> /\ call = [op |-> "none"] /\ orig = <<>>

ValidateConfig ==
    /\ validation = NotRun
    /\ validation' = validate_config(config)
    /\ UNCHANGED <<config, cfgfile, parsed, files, lastgen, data, stats, heap, call, orig>>

NextValidate == ValidateConfig

SpecValidate == InitValidate /\ [][NextValidate]_vars

(***************************************************************************)
(* Claims on validate_config                                               *)
(***************************************************************************)
\* What the specification calls an integer-formatted string: a non-empty
\* string of decimal digits, after an optional minus sign.
IntegerFormatted(s) ==
    LET body == IF Len(s) > 0 /\ s[1] = "-" THEN Tail(s) ELSE s
    IN  Len(body) > 0 /\ \A i \in DOMAIN body : DigitVal(body[i]) >= 0

IntegerValue(s) ==
    LET minus == Len(s) > 0 /\ s[1] = "-"
        body == IF minus THEN Tail(s) ELSE s
    IN  [neg |-> minus /\ Magnitude(body) # <<>>, mag |-> Magnitude(body)]

ThreeKeys == {"sample_data_rows", "sample_data_min", "sample_data_max"}

AllTrue(v) ==
    v.exc = "none" /\ \A i \in DOMAIN v.val : v.val[i][2] = TRUE

RulesHold(d) ==
    /\ \A k \in ThreeKeys : IntegerFormatted(Get(d, k))
    /\ IntLess(Small(0), IntegerValue(Get(d, "sample_data_rows")))
    /\ ~IntLess(IntegerValue(Get(d, "sample_data_min")), Small(1))
    /\ IntLess(IntegerValue(Get(d, "sample_data_min")),
               IntegerValue(Get(d, "sample_data_max")))

\* C1: for a config with exactly the keys sample_data_rows, sample_data_min
\* and sample_data_max, validate_config returns true for all three keys if and
\* only if all three values are integer-formatted and rows > 0, min >= 1 and
\* max > min.
C1_ValidIffRules ==
    (validation # NotRun /\ Len(config) = 3 /\ Keys(config) = ThreeKeys)
        => (AllTrue(validation) <=> RulesHold(config))

\* C9: for a config of exactly three entries, validate_config returns without
\* raising a mapping with exactly one boolean per key of the config; an
\* unrecognized key maps to false, and a value a rule needs that is absent or
\* not integer-formatted yields false, not an error.
C9_NeverRaises ==
    (validation # NotRun /\ Len(config) = 3) =>
        /\ validation.exc = "none"
        /\ {validation.val[i][1] : i \in DOMAIN validation.val} = Keys(config)
        /\ Len(validation.val) = 3
        /\ \A i \in DOMAIN validation.val :
              validation.val[i][1] \notin ThreeKeys => validation.val[i][2] = FALSE

(***************************************************************************)
(* parse_config                                                            *)
(***************************************************************************)
\* The position of the first occurrence of c in s, 0 when there is none.
Find(s, c) ==
    IF \E i \in DOMAIN s : s[i] = c
    THEN CHOOSE i \in DOMAIN s : s[i] = c /\ \A j \in 1..(i - 1) : s[j] # c
    ELSE 0

\* str.split(sep): the pieces between the occurrences of sep; one piece, the
\* string itself, when sep does not occur (also for the empty string).
RECURSIVE split(_, _)
split(s, sep) ==
    LET i == Find(s, sep)
    IN  IF i = 0 THEN <<s>>
        ELSE <<SubSeq(s, 1, i - 1)>> \o split(SubSeq(s, i + 1, Len(s)), sep)

\* config[key] = value: an existing key keeps its place, a new one is appended.
DictSet(d, key, value) ==
    IF HasKey(d, key)
    THEN [i \in DOMAIN d |-> IF d[i][1] = key THEN <<key, value>> ELSE d[i]]
    ELSE Append(d, <<key, value>>)

\* The loop over the rows of the file: `key, value = row.split('=')` raises
\* ValueError unless split returns exactly two pieces.
RECURSIVE ParseLoop(_, _, _)
ParseLoop(rows, i, acc) ==
    IF i > Len(rows) THEN [exc |-> "none", val |-> acc]
    ELSE LET row == strip(rows[i] \o <<"\n">>)
             parts == split(row, "=")
         IN  IF Len(parts) # 2 THEN [exc |-> "ValueError", val |-> <<>>]
             ELSE ParseLoop(rows, i + 1, DictSet(acc, parts[1], parts[2]))

\* The file is given by its lines, each without its line terminator.
parse_config(rows) == ParseLoop(rows, 1, <<>>)

MaxLineLen == 3

MaxLines == 2

LineChars == {"a", "b", "=", "1", " ", "\f"}

ConfigFiles == SeqsUpTo(SeqsUpTo(LineChars, MaxLineLen), MaxLines)

InitParse ==
    /\ cfgfile \in ConfigFiles
    /\ parsed = NotRun
    /\ config = <<>> /\ validation = NotRun
    /\ files = <<>> /\ lastgen = <<>>
    /\ data = <<>> /\ stats = NotRun
    /\ heap = <<>> /\ call = [op |-> "none"] /\ orig = <<>>

ParseConfig ==
    /\ parsed = NotRun
    /\ parsed' = parse_config(cfgfile)
    /\ UNCHANGED <<config, validation, cfgfile, files, lastgen, data, stats, heap, call, orig>>

NextParse == ParseConfig

SpecParse == InitParse /\ [][NextParse]_vars

(***************************************************************************)
(* Claims on parse_config                                                  *)
(***************************************************************************)
CountChar(s, c) == Cardinality({i \in DOMAIN s : s[i] = c})

\* A line is well formed when it holds exactly one '='.
WellFormed(line) == CountChar(line, "=") = 1

NonEmptyLines(rows) == {i \in DOMAIN rows : Len(rows[i]) > 0}

\* The key and the value of a well-formed line: the text before and after '='.
LineKey(line) == SubSeq(strip(line), 1, Find(strip(line), "=") - 1)

LineValue(line) == SubSeq(strip(line), Find(strip(line), "=") + 1, Len(strip(line)))

\* C10: parse_config returns the mapping of the key and value of every
\* non-empty line, empty lines contributing no entry, and fails exactly when
\* some non-empty line does not hold exactly one '='.
C10_ParseNonEmptyLines ==
    parsed # NotRun =>
        /\ parsed.exc # "none" <=> \E i \in NonEmptyLines(cfgfile) : ~WellFormed(cfgfile[i])
        /\ parsed.exc = "none" =>
              /\ Keys(parsed.val) = {LineKey(cfgfile[i]) : i \in NonEmptyLines(cfgfile)}
              /\ \A k \in Keys(parsed.val) :
                     \E i \in NonEmptyLines(cfgfile) :
                        /\ LineKey(cfgfile[i]) = k
                        /\ LineValue(cfgfile[i]) = Get(parsed.val, k)
                        /\ \A j \in NonEmptyLines(cfgfile) :
                               LineKey(cfgfile[j]) = k => j <= i

(***************************************************************************)
(* generate_sample_data                                                    *)
(***************************************************************************)
NoFile == [exists |-> FALSE, lines |-> <<>>]

\* open(filename, 'a') keeps what the file holds.
OpenAppend(f) == [exists |-> TRUE, lines |-> f.lines]

\* open(filename, 'w') creates the file or truncates it to nothing.
OpenWrite(f) == [exists |-> TRUE, lines |-> <<>>]

\* file.write(f"{random_number}\n"): one more line, the decimal text of the number.
WriteLine(f, n) == [f EXCEPT !.lines = Append(@, IntToStr(n))]

RECURSIVE WriteAll(_, _, _)
WriteAll(f, draws, i) ==
    IF i > Len(draws) THEN f ELSE WriteAll(WriteLine(f, draws[i]), draws, i + 1)

\* range(n) has n elements, none when n <= 0.
RangeLen(n) == IF n.neg THEN 0 ELSE Number(n)

\* The three int(config[...]) of the function: the exception of the first one
\* that raises, KeyError for an absent key.
GenArg(cfg, key) ==
    IF ~HasKey(cfg, key) THEN [exc |-> "KeyError", val |-> Small(0)]
    ELSE IF ~int(Get(cfg, key)).ok THEN [exc |-> "ValueError", val |-> Small(0)]
    ELSE [exc |-> "none", val |-> int(Get(cfg, key)).val]

GenArgs(cfg) ==
    LET r == GenArg(cfg, "sample_data_rows")
        lo == GenArg(cfg, "sample_data_min")
        hi == GenArg(cfg, "sample_data_max")
    IN  [exc |-> IF r.exc # "none" THEN r.exc
                 ELSE IF lo.exc # "none" THEN lo.exc ELSE hi.exc,
         num_rows |-> r.val, min_value |-> lo.val, max_value |-> hi.val]

\* generate_sample_data(filename, config) with `draws` the numbers that
\* random.randint returns: [exc, file].  The config is read before the file
\* is opened; random.randint(a, b) raises ValueError when a > b, after the
\* file was opened.
generate_sample_data(f, cfg, draws) ==
    LET a == GenArgs(cfg)
    IN  IF a.exc # "none" THEN [exc |-> a.exc, file |-> f]
        ELSE IF IntLess(Small(0), a.num_rows) /\ IntLess(a.max_value, a.min_value)
        THEN [exc |-> "ValueError", file |-> OpenWrite(f)]
        ELSE [exc |-> "none", file |-> WriteAll(OpenWrite(f), draws, 1)]

\* The sequences random.randint can return over the loop of a call.
Draws(cfg) ==
    LET a == GenArgs(cfg)
    IN  IF a.exc # "none" \/ IntLess(a.max_value, a.min_value) THEN {<<>>}
        ELSE [1..RangeLen(a.num_rows) -> Number(a.min_value)..Number(a.max_value)]

MaxGenRows == 2

MaxGenValue == 3

Paths == {"data/sample_data.csv"}

GenConfigs ==
    {<<<<"sample_data_rows", r>>, <<"sample_data_min", lo>>, <<"sample_data_max", hi>>>> :
        r \in {IntToStr(n) : n \in 0..MaxGenRows}
                 \cup {<<"a">>, <<"0", "_", "2">>, <<"1", "\f">>, <<"1", "">>, <<"U+0662">>},
        lo \in {IntToStr(n) : n \in 1..2},
        hi \in {IntToStr(n) : n \in 1..MaxGenValue}}
    \cup {<<<<"sample_data_rows", <<"1">>>>, <<"sample_data_min", <<"1">>>>>>}


\* had: the number of lines the file held when the call began.
NoGen == [exc |-> "notrun", config |-> <<>>, had |-> 0]

InitGenerate ==
    /\ files = [p \in Paths |-> NoFile]
    /\ lastgen = [p \in Paths |-> NoGen]
    /\ config = <<>> /\ validation = NotRun
    /\ cfgfile = <<>> /\ parsed = NotRun
    /\ data = <<>> /\ stats = NotRun
    /\ heap = <<>> /\ call = [op |-> "none"] /\ orig = <<>>

GenerateSampleData ==
    \E p \in Paths, cfg \in GenConfigs :
        \E draws \in Draws(cfg) :
            LET r == generate_sample_data(files[p], cfg, draws)
            IN  /\ files' = [files EXCEPT ![p] = r.file]
                /\ lastgen' = [lastgen EXCEPT ![p] = [exc |-> r.exc, config |-> cfg,
                                                    had |-> Len(files[p].lines)]]
                /\ UNCHANGED <<config, validation, cfgfile, parsed, data, stats, heap, call, orig>>

NextGenerate == GenerateSampleData

SpecGenerate == InitGenerate /\ [][NextGenerate]_vars

(***************************************************************************)
(* Claims on generate_sample_data                                          *)
(***************************************************************************)
Validated(cfg) == AllTrue(validate_config(cfg))

\* C4: after any sequence of calls, a file last written with a validated
\* config of rows = n holds exactly n lines, the lines of that last call, each
\* an integer v with min <= v <= max.
C4_FileOfLastCall ==
    \A p \in Paths :
        (lastgen[p] # NoGen /\ Validated(lastgen[p].config)) =>
            LET cfg == lastgen[p].config
                f == files[p]
            IN  /\ lastgen[p].exc = "none"
                /\ f.exists
                /\ Small(Len(f.lines)) = IntegerValue(Get(cfg, "sample_data_rows"))
                /\ \A i \in DOMAIN f.lines :
                      /\ IntegerFormatted(f.lines[i])
                      /\ ~IntLess(IntegerValue(f.lines[i]),
                                  IntegerValue(Get(cfg, "sample_data_min")))
                      /\ ~IntLess(IntegerValue(Get(cfg, "sample_data_max")),
                                  IntegerValue(f.lines[i]))

\* A file that held two lines is written again with rows = 1, min = 2, max = 3.
C4_Witness ==
    /\ lastgen["data/sample_data.csv"] # NoGen
    /\ Validated(lastgen["data/sample_data.csv"].config)
    /\ Get(lastgen["data/sample_data.csv"].config, "sample_data_rows") = <<"1">>
    /\ Get(lastgen["data/sample_data.csv"].config, "sample_data_min") = <<"2">>
    /\ lastgen["data/sample_data.csv"].had = 2
    /\ files["data/sample_data.csv"].lines = <<<<"3">>>>

(***************************************************************************)
(* calculate_statistics                                                    *)
(***************************************************************************)
Abs(n) == IF n < 0 THEN 0 - n ELSE n

RECURSIVE Gcd(_, _)
Gcd(a, b) == IF b = 0 THEN a ELSE Gcd(b, a % b)

\* The quotient a / b of true division, b # 0, as a fraction in lowest terms
\* with a positive denominator.
Rat(a, b) ==
    LET g == Gcd(Abs(a), Abs(b))
        sg == IF b < 0 THEN -1 ELSE 1
    IN  [num |-> (sg * a) \div g, den |-> (sg * b) \div g]

RECURSIVE sum(_)
sum(xs) == IF Len(xs) = 0 THEN 0 ELSE xs[1] + sum(Tail(xs))

\* The list left as it is.
unsorted(xs) == xs

\* x put into an ascending list, after the elements that are <= x.
RECURSIVE Insert(_, _)
Insert(x, xs) ==
    IF Len(xs) = 0 THEN <<x>>
    ELSE IF xs[1] <= x THEN <<xs[1]>> \o Insert(x, Tail(xs))
    ELSE <<x>> \o xs

\* sorted(data): ascending.
RECURSIVE SortedFrom(_, _)
SortedFrom(xs, acc) ==
    IF Len(xs) = 0 THEN acc ELSE SortedFrom(Tail(xs), Insert(xs[1], acc))

sorted(xs) == SortedFrom(xs, <<>>)

\* Indices are Python's, from 0.
calculate_statistics(xs) ==
    IF Len(xs) = 0 THEN [exc |-> "ZeroDivisionError", val |-> <<>>]
    ELSE LET cs_count == Len(xs)
             cs_sum == sum(xs)
             cs_mean == Rat(sum(xs), Len(xs))
             data_sort == sorted(xs)
             cs_median ==
                 IF cs_count % 2 = 0
                 THEN Rat(data_sort[((cs_count \div 2) - 1) + 1]
                              + data_sort[(cs_count \div 2) + 1], 2)
                 ELSE Rat(data_sort[(cs_count \div 2) + 1], 1)
         IN  [exc |-> "none",
              val |-> [mean |-> cs_mean, median |-> cs_median,
                       sum |-> cs_sum, count |-> cs_count]]

MaxDataLen == 4

MaxDataValue == 4

DataLists ==
    SeqsUpTo(-1..MaxDataValue, MaxDataLen)
        \cup {<<10, 20, 30, 40, 50>>, <<50, 10, 40, 20, 30>>}

InitStatistics ==
    /\ data \in DataLists
    /\ stats = NotRun
    /\ config = <<>> /\ validation = NotRun
    /\ cfgfile = <<>> /\ parsed = NotRun
    /\ files = <<>> /\ lastgen = <<>>
    /\ heap = <<>> /\ call = [op |-> "none"] /\ orig = <<>>

CalculateStatistics ==
    /\ stats = NotRun
    /\ stats' = calculate_statistics(data)
    /\ UNCHANGED <<config, validation, cfgfile, parsed, files, lastgen, data, heap, call, orig>>

NextStatistics == CalculateStatistics

SpecStatistics == InitStatistics /\ [][NextStatistics]_vars

(***************************************************************************)
(* Claims on calculate_statistics                                          *)
(***************************************************************************)
\* The k-th smallest element of xs, k in 1..Len(xs), counted with repetitions.
KthSmallest(xs, k) ==
    CHOOSE v \in Range(xs) :
        /\ Cardinality({i \in DOMAIN xs : xs[i] < v}) < k
        /\ Cardinality({i \in DOMAIN xs : xs[i] <= v}) >= k

\* The fraction q equals a / b.
RatIs(q, a, b) == q.den > 0 /\ q.num * b = a * q.den

\* C5: for a non-empty list of integers, count is the length, sum the sum of
\* the elements, mean is sum / count, and median is the middle element of the
\* sorted list when count is odd and the average of the two middle elements
\* when it is even.
C5_Statistics ==
    (stats # NotRun /\ Len(data) > 0) =>
        LET n == Len(data)
            total == sum([i \in 1..n |-> data[n + 1 - i]])
        IN  /\ stats.exc = "none"
            /\ stats.val.count = n
            /\ stats.val.sum = total
            /\ RatIs(stats.val.mean, total, n)
            /\ n % 2 = 1 =>
                  RatIs(stats.val.median, KthSmallest(data, (n + 1) \div 2), 1)
            /\ n % 2 = 0 =>
                  RatIs(stats.val.median,
                        KthSmallest(data, n \div 2) + KthSmallest(data, (n \div 2) + 1), 2)
            /\ data = <<10, 20, 30, 40, 50>> =>
                  stats.val = [mean |-> [num |-> 30, den |-> 1],
                               median |-> [num |-> 30, den |-> 1],
                               sum |-> 150, count |-> 5]
            /\ data = <<1, 2, 3, 4>> => stats.val.median = [num |-> 5, den |-> 2]

\* An even count whose two middle elements differ, given out of order.
C5_Witness ==
    /\ stats # NotRun
    /\ data = <<3, 0, 2, 1>>
    /\ stats.val.median = [num |-> 3, den |-> 2]
    /\ stats.val.mean = [num |-> 3, den |-> 2]

(***************************************************************************)
(* q3_data_utils: cells, tables and the heap of DataFrame objects          *)
(*                                                                         *)
(* A cell is a record [k, n, d, s]: k = "nan" the missing marker (NaN, NaT,*)
(* <NA>), k = "num" the number n / d in lowest terms, k = "date" the       *)
(* timestamp n nanoseconds after the epoch, k = "str" the string s.        *)
(* A table is [index, columns, val, dtype]: the row labels, the column     *)
(* names in order, and per column its cells and its dtype.                 *)
(* The heap is the sequence of the live DataFrame objects; a reference is  *)
(* a position in it.  A function of the module takes the heap and the      *)
(* reference of its argument and returns [heap, ret, exc].                 *)
(***************************************************************************)
NaN == [k |-> "nan", n |-> 0, d |-> 1, s |-> ""]

Num(n) == [k |-> "num", n |-> n, d |-> 1, s |-> ""]

Frac(q) == [k |-> "num", n |-> q.num, d |-> q.den, s |-> ""]

Str(s) == [k |-> "str", n |-> 0, d |-> 1, s |-> s]

Date(n) == [k |-> "date", n |-> n, d |-> 1, s |-> ""]

isna(c) == c.k = "nan"

\* Comparisons of cells as numbers; every comparison with NaN is false.
BothNum(x, y) == x.k = "num" /\ y.k = "num"

CellEq(x, y) == BothNum(x, y) /\ x.n * y.d = y.n * x.d

CellLt(x, y) == BothNum(x, y) /\ x.n * y.d < y.n * x.d

CellLe(x, y) == BothNum(x, y) /\ x.n * y.d <= y.n * x.d

\* The elements of a finite set of naturals in ascending order.
RECURSIVE Ascending(_)
Ascending(S) ==
    IF S = {} THEN <<>>
    ELSE LET m == CHOOSE x \in S : \A y \in S : x <= y
         IN  <<m>> \o Ascending(S \ {m})

NRows(t) == Len(t.index)

\* The rows of t at the positions `keep`, in that order, with their labels.
Take(t, keep) ==
    [t EXCEPT !.index = [i \in 1..Len(keep) |-> t.index[keep[i]]],
              !.val = [c \in DOMAIN t.val |->
                          [i \in 1..Len(keep) |-> t.val[c][keep[i]]]]]

\* df[mask]: the rows where the boolean mask is true.
BoolIndex(t, mask) == Take(t, Ascending({i \in 1..NRows(t) : mask[i]}))

RowAt(t, i) == [c \in DOMAIN t.val |-> t.val[c][i]]

\* A new object on the heap.
New(h, t) == [heap |-> Append(h, t), ret |-> Len(h) + 1, exc |-> "none"]

Raise(h, e) == [heap |-> h, ret |-> 0, exc |-> e]

\* No copy: the same object under another name.
alias(h, r) == [heap |-> h, ret |-> r, exc |-> "none"]

\* df.copy(): a new object with the same content.
copy(h, r) == New(h, h[r])

\* df[column] = series, in place.
SetColumn(h, r, column, series, dt) ==
    [h EXCEPT ![r] =
        [index |-> @.index,
         columns |-> IF column \in DOMAIN @.val THEN @.columns
                     ELSE Append(@.columns, column),
         val |-> [c \in DOMAIN @.val \cup {column} |->
                     IF c = column THEN series ELSE @.val[c]],
         dtype |-> [c \in DOMAIN @.val \cup {column} |->
                     IF c = column THEN dt ELSE @.dtype[c]]]]

(***************************************************************************)
(* clean_data                                                              *)
(***************************************************************************)
\* DataFrame.drop_duplicates(): a row equal in every column to an earlier row
\* is dropped; missing values count as equal to each other.
drop_duplicates(t) ==
    Take(t, Ascending({i \in 1..NRows(t) :
                          ~\E j \in 1..(i - 1) : RowAt(t, j) = RowAt(t, i)}))

\* DataFrame.replace(sentinel_value, np.nan): every cell equal to the number
\* becomes NaN; an integer column that loses a value becomes a float column.
replace(t, sentinel_value) ==
    [t EXCEPT
        !.val = [c \in DOMAIN t.val |->
                    [i \in 1..NRows(t) |->
                        IF CellEq(t.val[c][i], Num(sentinel_value)) THEN NaN
                        ELSE t.val[c][i]]],
        !.dtype = [c \in DOMAIN t.val |->
                    IF t.dtype[c] = "int64"
                       /\ \E i \in 1..NRows(t) : CellEq(t.val[c][i], Num(sentinel_value))
                    THEN "float64" ELSE t.dtype[c]]]

clean_data(h, df, remove_duplicates, sentinel_value) ==
    LET c0 == copy(h, df)
        c1 == IF remove_duplicates
              THEN New(c0.heap, drop_duplicates(c0.heap[c0.ret]))
              ELSE c0
    IN  New(c1.heap, replace(c1.heap[c1.ret], sentinel_value))

(***************************************************************************)
(* fill_missing                                                            *)
(***************************************************************************)
RatAdd(p, q) == Rat(p.num * q.den + q.num * p.den, p.den * q.den)

\* The cells of a column that are not missing, in row order.
Present(series) == SelectSeq(series, LAMBDA c : ~isna(c))

RECURSIVE SumCells(_)
SumCells(cells) ==
    IF Len(cells) = 0 THEN [num |-> 0, den |-> 1]
    ELSE RatAdd([num |-> cells[1].n, den |-> cells[1].d], SumCells(Tail(cells)))

\* Series.mean() that does not skip the missing values: NaN as soon as one is missing.
mean_keepna(series) ==
    IF Len(Present(series)) = 0 \/ Len(Present(series)) < Len(series) THEN NaN
    ELSE LET t == SumCells(Present(series))
         IN  Frac(Rat(t.num, t.den * Len(Present(series))))

\* Series.mean(): the mean of the values present, NaN when there is none.
mean(series) ==
    IF Len(Present(series)) = 0 THEN NaN
    ELSE LET t == SumCells(Present(series))
         IN  Frac(Rat(t.num, t.den * Len(Present(series))))

RECURSIVE InsertCell(_, _)
InsertCell(x, xs) ==
    IF Len(xs) = 0 THEN <<x>>
    ELSE IF CellLe(xs[1], x) THEN <<xs[1]>> \o InsertCell(x, Tail(xs))
    ELSE <<x>> \o xs

RECURSIVE SortCells(_, _)
SortCells(xs, acc) ==
    IF Len(xs) = 0 THEN acc ELSE SortCells(Tail(xs), InsertCell(xs[1], acc))

\* Series.median(): of the values present, NaN when there is none.
median(series) ==
    LET xs == SortCells(Present(series), <<>>)
        n == Len(xs)
    IN  IF n = 0 THEN NaN
        ELSE IF n % 2 = 1 THEN xs[(n + 1) \div 2]
        ELSE LET lo == xs[n \div 2]
                 hi == xs[(n \div 2) + 1]
                 t == RatAdd([num |-> lo.n, den |-> lo.d], [num |-> hi.n, den |-> hi.d])
             IN  Frac(Rat(t.num, t.den * 2))

\* Series.ffill(): a missing cell takes the last value present before it.
ffill(series) ==
    [i \in 1..Len(series) |->
        IF ~isna(series[i]) THEN series[i]
        ELSE IF \E j \in 1..(i - 1) : ~isna(series[j])
        THEN series[CHOOSE j \in 1..(i - 1) :
                       ~isna(series[j]) /\ \A m \in (j + 1)..(i - 1) : isna(series[m])]
        ELSE NaN]

\* Series.fillna(value), value a scalar.
fillna(series, value) ==
    [i \in 1..Len(series) |-> IF isna(series[i]) THEN value ELSE series[i]]

\* Series.fillna(other), other a series with the same labels.
fillna_series(series, other) ==
    [i \in 1..Len(series) |-> IF isna(series[i]) THEN other[i] ELSE series[i]]

fill_missing(h, df, column, strategy) ==
    LET df_filled == copy(h, df)
        t == df_filled.heap[df_filled.ret]
        set(series) ==
            [heap |-> SetColumn(df_filled.heap, df_filled.ret, column, series, t.dtype[column]),
             ret |-> df_filled.ret, exc |-> "none"]
    IN  IF strategy \notin {"mean", "median", "ffill"} THEN df_filled
        ELSE IF column \notin DOMAIN t.val THEN Raise(df_filled.heap, "KeyError")
        ELSE IF strategy = "mean" THEN set(fillna(t.val[column], mean(t.val[column])))
        ELSE IF strategy = "median" THEN set(fillna(t.val[column], median(t.val[column])))
        ELSE set(fillna_series(t.val[column], ffill(t.val[column])))

(***************************************************************************)
(* filter_data                                                             *)
(***************************************************************************)
\* The masks with in_range open at its upper end.
FilterMaskOpen(t, f) ==
    LET col == t.val[f.column]
    IN  [i \in 1..NRows(t) |->
            IF f.condition = "equals" THEN CellEq(col[i], Num(f.value[1]))
            ELSE IF f.condition = "greater_than" THEN CellLt(Num(f.value[1]), col[i])
            ELSE IF f.condition = "less_than" THEN CellLt(col[i], Num(f.value[1]))
            ELSE IF f.condition = "in_range"
            THEN CellLe(Num(f.value[1]), col[i]) /\ CellLt(col[i], Num(f.value[2]))
            ELSE \E j \in DOMAIN f.value : CellEq(col[i], Num(f.value[j]))]

\* A filter is [column, condition, value]; value is the sequence of the
\* numbers given: one for a scalar, two for a range, any for a list.
FilterMask(t, f) ==
    LET col == t.val[f.column]
    IN  [i \in 1..NRows(t) |->
            IF f.condition = "equals" THEN CellEq(col[i], Num(f.value[1]))
            ELSE IF f.condition = "greater_than" THEN CellLt(Num(f.value[1]), col[i])
            ELSE IF f.condition = "less_than" THEN CellLt(col[i], Num(f.value[1]))
            ELSE IF f.condition = "in_range"
            THEN CellLe(Num(f.value[1]), col[i]) /\ CellLe(col[i], Num(f.value[2]))
            ELSE \E j \in DOMAIN f.value : CellEq(col[i], Num(f.value[j]))]

Conditions == {"equals", "greater_than", "less_than", "in_range", "in_list"}

\* The loop over the filters: an unrecognized condition leaves the table as it
\* is, a recognized one on a column the table lacks raises KeyError.
RECURSIVE FilterLoop(_, _, _, _)
FilterLoop(h, cur, filters, i) ==
    IF i > Len(filters) THEN [heap |-> h, ret |-> cur, exc |-> "none"]
    ELSE LET f == filters[i]
         IN  IF f.condition \notin Conditions THEN FilterLoop(h, cur, filters, i + 1)
             ELSE IF f.column \notin DOMAIN h[cur].val THEN Raise(h, "KeyError")
             ELSE LET nxt == New(h, BoolIndex(h[cur], FilterMask(h[cur], f)))
                  IN  FilterLoop(nxt.heap, nxt.ret, filters, i + 1)

filter_data(h, df, filters) ==
    LET df_filtered == copy(h, df)
    IN  FilterLoop(df_filtered.heap, df_filtered.ret, filters, 1)

(***************************************************************************)
(* transform_types                                                         *)
(***************************************************************************)
SupportedTypes == {"datetime", "numeric", "category", "string"}

\* str() of a number of an integer column, and of a float column.  The
\* numbers of a loaded table are whole; a fraction is written n/d.
IntRepr(c) == IF c.d = 1 THEN ToString(c.n) ELSE ToString(c.n) \o "/" \o ToString(c.d)

FloatRepr(c) == IF c.d = 1 THEN ToString(c.n) \o ".0" ELSE IntRepr(c)

\* pd.to_datetime(series, format='mixed') of a numeric column: nanoseconds
\* after the epoch, NaT for a missing value.
to_datetime(series) ==
    [i \in 1..Len(series) |-> IF series[i].k = "num" THEN Date(series[i].n) ELSE series[i]]

\* Series.astype('string') of a numeric column: <NA> for a missing value.
astype_string(series, dt) ==
    [i \in 1..Len(series) |->
        IF series[i].k # "num" THEN series[i]
        ELSE IF dt = "int64" THEN Str(IntRepr(series[i]))
        ELSE Str(FloatRepr(series[i]))]

\* The loop over type_map.items(), a sequence of <<column, type>>: the columns
\* before an unsupported type are converted when the function raises.
RECURSIVE TypesLoop(_, _, _, _)
TypesLoop(h, r, type_map, i) ==
    IF i > Len(type_map) THEN [heap |-> h, ret |-> r, exc |-> "none"]
    ELSE LET key == type_map[i][1]
             value == type_map[i][2]
             t == h[r]
         IN  IF value \notin SupportedTypes THEN Raise(h, "ValueError")
             ELSE IF key \notin DOMAIN t.val THEN Raise(h, "KeyError")
             ELSE IF value = "datetime"
             THEN TypesLoop(SetColumn(h, r, key, to_datetime(t.val[key]), "datetime64[ns]"),
                            r, type_map, i + 1)
             ELSE IF value = "numeric"
             THEN TypesLoop(SetColumn(h, r, key, t.val[key], t.dtype[key]), r, type_map, i + 1)
             ELSE IF value = "category"
             THEN TypesLoop(SetColumn(h, r, key, t.val[key], "category"), r, type_map, i + 1)
             ELSE TypesLoop(SetColumn(h, r, key, astype_string(t.val[key], t.dtype[key]), "string"),
                            r, type_map, i + 1)

transform_types(h, df, type_map) ==
    LET df_typed == copy(h, df)
    IN  TypesLoop(df_typed.heap, df_typed.ret, type_map, 1)

(***************************************************************************)
(* create_bins                                                             *)
(***************************************************************************)
\* The number of edges e with e <= x (searchsorted, side = 'right'), and with e < x.
EdgesLe(bins, x) == Cardinality({j \in DOMAIN bins : CellLe(Num(bins[j]), x)})

EdgesLt(bins, x) == Cardinality({j \in DOMAIN bins : CellLt(Num(bins[j]), x)})

\* pd.cut with right = True: the intervals (e[i], e[i+1]].
cut_right(series, bins, labels) ==
    [i \in 1..Len(series) |->
        IF isna(series[i]) \/ EdgesLt(bins, series[i]) = 0
           \/ EdgesLt(bins, series[i]) = Len(bins)
        THEN NaN
        ELSE Str(labels[EdgesLt(bins, series[i])])]

\* pd.cut(series, bins = bins, labels = labels, right = False) on valid
\* arguments: a value gets the label of the last edge that is <= it, and the
\* missing marker when it is missing, below the first edge or not below the last.
cut(series, bins, labels) ==
    [i \in 1..Len(series) |->
        IF isna(series[i]) \/ EdgesLe(bins, series[i]) = 0
           \/ EdgesLe(bins, series[i]) = Len(bins)
        THEN NaN
        ELSE Str(labels[EdgesLe(bins, series[i])])]

\* What pd.cut rejects with ValueError: edges that decrease, edges that
\* repeat (more than two of them), labels that repeat, and labels that are
\* not one fewer than the edges.
CutRejects(bins, labels) ==
    \/ \E j \in 1..(Len(bins) - 1) : bins[j + 1] < bins[j]
    \/ Cardinality(Range(bins)) < Len(bins) /\ Len(bins) # 2
    \/ Cardinality(Range(labels)) < Len(labels)
    \/ Len(labels) # Len(bins) - 1

\* new_column is <<>> for None and <<name>> for a name.
create_bins(h, df, column, bins, labels, new_column) ==
    LET df_binned == copy(h, df)
        t == df_binned.heap[df_binned.ret]
        name == IF new_column = <<>> THEN column \o "_binned" ELSE new_column[1]
    IN  IF column \notin DOMAIN t.val THEN Raise(df_binned.heap, "KeyError")
        ELSE IF CutRejects(bins, labels) THEN Raise(df_binned.heap, "ValueError")
        ELSE [heap |-> SetColumn(df_binned.heap, df_binned.ret, name,
                                 cut(t.val[column], bins, labels), "category"),
              ret |-> df_binned.ret, exc |-> "none"]

(***************************************************************************)
(* summarize_by_group                                                      *)
(*                                                                         *)
(* A standard deviation is the cell [k |-> "sqrt", n, d]: the square root  *)
(* of n / d.  The columns of a result are named column.statistic.          *)
(***************************************************************************)
R(c) == [num |-> c.n, den |-> c.d]

RatSub(p, q) == Rat(p.num * q.den - q.num * p.den, p.den * q.den)

RatMul(p, q) == Rat(p.num * q.num, p.den * q.den)

\* The group keys of groupby(group_col): the distinct values present, ascending.
GroupKeys(t, group_col) ==
    LET present == Present(t.val[group_col])
        firsts == {i \in DOMAIN present :
                      ~\E j \in 1..(i - 1) : CellEq(present[j], present[i])}
    IN  SortCells([i \in 1..Cardinality(firsts) |-> present[Ascending(firsts)[i]]], <<>>)

\* The cells of a column in the rows of one group.
GroupCells(t, group_col, key, column) ==
    LET rows == Ascending({i \in 1..NRows(t) : CellEq(t.val[group_col][i], key)})
    IN  [i \in 1..Len(rows) |-> t.val[column][rows[i]]]

RECURSIVE SumSqDev(_, _)
SumSqDev(cells, m) ==
    IF Len(cells) = 0 THEN [num |-> 0, den |-> 1]
    ELSE LET dev == RatSub(R(cells[1]), m)
         IN  RatAdd(RatMul(dev, dev), SumSqDev(Tail(cells), m))

\* Series.std(): the sample standard deviation, NaN below two values.
std(series) ==
    LET xs == Present(series)
        v == SumSqDev(xs, R(mean(series)))
    IN  IF Len(xs) < 2 THEN NaN
        ELSE IF v.num = 0 THEN Num(0)
        ELSE [k |-> "sqrt", n |-> Rat(v.num, v.den * (Len(xs) - 1)).num,
              d |-> Rat(v.num, v.den * (Len(xs) - 1)).den, s |-> ""]

\* Series.quantile(qn / qd), by linear interpolation between the two nearest ranks.
quantile(series, qn, qd) ==
    LET xs == SortCells(Present(series), <<>>)
        n == Len(xs)
        lo == ((n - 1) * qn) \div qd
        frac == Rat(((n - 1) * qn) % qd, qd)
    IN  IF n = 0 THEN NaN
        ELSE IF frac.num = 0 THEN xs[lo + 1]
        ELSE Frac(RatAdd(R(xs[lo + 1]),
                         RatMul(RatSub(R(xs[lo + 2]), R(xs[lo + 1])), frac)))

Minimum(series) ==
    LET xs == SortCells(Present(series), <<>>) IN IF Len(xs) = 0 THEN NaN ELSE xs[1]

Maximum(series) ==
    LET xs == SortCells(Present(series), <<>>) IN IF Len(xs) = 0 THEN NaN ELSE xs[Len(xs)]

DescribeStats == <<"count", "mean", "std", "min", "25%", "50%", "75%", "max">>

Statistic(series, fn) ==
    IF fn = "count" THEN Num(Len(Present(series)))
    ELSE IF fn = "mean" THEN mean(series)
    ELSE IF fn = "std" THEN std(series)
    ELSE IF fn = "min" THEN Minimum(series)
    ELSE IF fn = "25%" THEN quantile(series, 1, 4)
    ELSE IF fn = "50%" THEN quantile(series, 1, 2)
    ELSE IF fn = "75%" THEN quantile(series, 3, 4)
    ELSE IF fn = "max" THEN Maximum(series)
    ELSE Frac(SumCells(Present(series)))

StatDtype(t, column, fn) ==
    IF fn = "count" THEN "int64"
    ELSE IF fn \in {"sum", "min", "max"} THEN t.dtype[column]
    ELSE "float64"

\* The result of a grouped aggregation: a row per group key, a column per
\* <<column, statistic>> of `wanted`, named by `names`.
Grouped(t, group_col, wanted, names, describing) ==
    LET keys == GroupKeys(t, group_col)
    IN  [index |-> [i \in 1..Len(keys) |-> keys[i].n],
         columns |-> names,
         val |-> [c \in Range(names) |->
                     LET w == wanted[CHOOSE j \in DOMAIN names : names[j] = c]
                     IN  [i \in 1..Len(keys) |->
                            Statistic(GroupCells(t, group_col, keys[i], w[1]), w[2])]],
         dtype |-> [c \in Range(names) |->
                     LET w == wanted[CHOOSE j \in DOMAIN names : names[j] = c]
                     IN  IF describing THEN "float64" ELSE StatDtype(t, w[1], w[2])]]

RECURSIVE Flatten(_)
Flatten(ss) == IF Len(ss) = 0 THEN <<>> ELSE ss[1] \o Flatten(Tail(ss))

\* agg_dict is <<>> for None, else a sequence of [column, funcs, aslist]: the
\* functions asked of a column, given as a list or as a single name.
summarize_by_group(h, df, group_col, agg_dict) ==
    LET df_summary == copy(h, df)
        t == df_summary.heap[df_summary.ret]
        others == SelectSeq(t.columns, LAMBDA c : c # group_col)
        wanted ==
            IF agg_dict = <<>>
            THEN Flatten([i \in DOMAIN others |->
                            [j \in DOMAIN DescribeStats |-> <<others[i], DescribeStats[j]>>]])
            ELSE Flatten([i \in DOMAIN agg_dict |->
                            [j \in DOMAIN agg_dict[i].funcs |->
                                <<agg_dict[i].column, agg_dict[i].funcs[j]>>]])
        flat == agg_dict # <<>> /\ \A i \in DOMAIN agg_dict : ~agg_dict[i].aslist
        names == [i \in DOMAIN wanted |->
                     IF flat THEN wanted[i][1] ELSE wanted[i][1] \o "." \o wanted[i][2]]
    IN  IF group_col \notin DOMAIN t.val THEN Raise(df_summary.heap, "KeyError")
        ELSE IF \E i \in DOMAIN agg_dict : agg_dict[i].column \notin DOMAIN t.val
        THEN Raise(df_summary.heap, "KeyError")
        ELSE New(df_summary.heap, Grouped(t, group_col, wanted, names, agg_dict = <<>>))

(***************************************************************************)
(* The tables a caller loads, and the calls                                *)
(***************************************************************************)
SentinelDefault == -999

MaxRows == 2

ColumnNames == <<"age", "bmi">>

CellValues == {NaN, Num(SentinelDefault), Num(1), Num(2)}

\* What load_data gives: rows labelled from 0, a column with a missing value
\* is a float column, any other an integer column.
Loaded(n, v) ==
    [index |-> [i \in 1..n |-> i - 1],
     columns |-> ColumnNames,
     val |-> v,
     dtype |-> [c \in DOMAIN v |->
                   IF \E i \in 1..n : isna(v[c][i]) THEN "float64" ELSE "int64"]]

Tables ==
    UNION {{Loaded(n, v) : v \in [Range(ColumnNames) -> [1..n -> CellValues]]} :
              n \in 1..MaxRows}

Sentinels == {SentinelDefault, 2}

NoCall == [op |-> "none", n |-> 0, exc |-> "none"]

InitTable ==
    /\ \E t \in Tables : heap = <<t>> /\ orig = t
    /\ call = NoCall
    /\ config = <<>> /\ validation = NotRun
    /\ cfgfile = <<>> /\ parsed = NotRun
    /\ files = <<>> /\ lastgen = <<>>
    /\ data = <<>> /\ stats = NotRun

\* The caller holds its table at reference 1 and calls a function on it; the
\* call's result, when it returns one, is then at reference 2, and the
\* objects that nothing refers to any more are gone.  call.n counts the calls.
Returned(r, desc) ==
    /\ heap' = IF r.exc = "none" THEN <<r.heap[1], r.heap[r.ret]>> ELSE <<r.heap[1]>>
    /\ call' = desc @@ [exc |-> r.exc, n |-> call.n + 1]
    /\ UNCHANGED <<config, validation, cfgfile, parsed, files, lastgen, data, stats, orig>>

\* The column names a caller passes: those of the table and one it lacks.
ColumnArgs == Range(ColumnNames) \cup {"site"}

CleanData ==
    \E rd \in BOOLEAN, sv \in Sentinels :
        Returned(clean_data(<<heap[1]>>, 1, rd, sv),
                 [op |-> "clean_data", remove_duplicates |-> rd, sentinel_value |-> sv])

Strategies == {"mean", "median", "ffill", "mode"}

FillMissingWith(columns, strategies) ==
    \E column \in columns, strategy \in strategies :
        Returned(fill_missing(<<heap[1]>>, 1, column, strategy),
                 [op |-> "fill_missing", column |-> column, strategy |-> strategy])

Filters ==
    {[column |-> c, condition |-> cv[1], value |-> cv[2]] :
        c \in Range(ColumnNames),
        cv \in {<<"equals", <<1>>>>, <<"greater_than", <<1>>>>, <<"less_than", <<2>>>>,
                <<"in_range", <<1, 2>>>>, <<"in_list", <<SentinelDefault, 2>>>>,
                <<"not_equals", <<1>>>>}}
    \cup {[column |-> "site", condition |-> "equals", value |-> <<1>>]}

FillMissing == FillMissingWith(ColumnArgs, Strategies)

FilterLists == {<<>>} \cup {<<f>> : f \in Filters} \cup {<<f, g>> : f, g \in Filters}

FilterDataWith(lists) ==
    \E filters \in lists :
        Returned(filter_data(<<heap[1]>>, 1, filters),
                 [op |-> "filter_data", filters |-> filters])

FilterData == FilterDataWith(FilterLists)

TransformTypesWith(maps) ==
    \E type_map \in maps :
        Returned(transform_types(<<heap[1]>>, 1, type_map),
                 [op |-> "transform_types", type_map |-> type_map])

BinEdges == {<<1, 2>>, <<1, 2, 3>>, <<SentinelDefault, 2, 3>>, <<2, 1>>, <<1, 1, 2>>}

BinLabels == {<<"low">>, <<"low", "high">>, <<"low", "low">>}

NewColumns == {<<>>, <<"group">>, <<"bmi">>}

CreateBinsWith(columns, edges, labelings, names) ==
    \E column \in columns, bins \in edges, labels \in labelings, new_column \in names :
        Returned(create_bins(<<heap[1]>>, 1, column, bins, labels, new_column),
                 [op |-> "create_bins", column |-> column, bins |-> bins,
                  labels |-> labels, new_column |-> new_column])

CreateBins == CreateBinsWith(ColumnArgs, BinEdges, BinLabels, NewColumns)

AggDicts ==
    {<<>>,
     <<[column |-> "bmi", funcs |-> <<"mean">>, aslist |-> FALSE]>>,
     <<[column |-> "bmi", funcs |-> <<"min", "max">>, aslist |-> TRUE]>>,
     <<[column |-> "bmi", funcs |-> <<"sum", "count">>, aslist |-> TRUE],
       [column |-> "site", funcs |-> <<"mean">>, aslist |-> FALSE]>>}

SummarizeByGroupWith(columns) ==
    \E group_col \in columns, agg_dict \in AggDicts :
        Returned(summarize_by_group(<<heap[1]>>, 1, group_col, agg_dict),
                 [op |-> "summarize_by_group", group_col |-> group_col,
                  agg_dict |-> agg_dict])

\* One call of one function on a loaded table.
NextClean == call.n = 0 /\ CleanData

NextFill == call.n = 0 /\ FillMissing

NextFilter == call.n = 0 /\ FilterData

NextBins == call.n = 0 /\ CreateBins

SpecClean == InitTable /\ [][NextClean]_vars

SpecFill == InitTable /\ [][NextFill]_vars

SpecFilter == InitTable /\ [][NextFilter]_vars

SpecBins == InitTable /\ [][NextBins]_vars

\* A sequence of calls, each on the caller's table.
MaxCalls == 2

SomeFilterLists ==
    {<<>>,
     <<[column |-> "age", condition |-> "greater_than", value |-> <<1>>]>>,
     <<[column |-> "bmi", condition |-> "in_range", value |-> <<1, 2>>],
       [column |-> "site", condition |-> "equals", value |-> <<1>>]>>}

\* Type maps of one column, and of "age" and then "bmi"; "boolean" is no
\* supported type.
SomeTypeMaps ==
    {<<<<"age", "datetime">>>>, <<<<"bmi", "numeric">>>>, <<<<"site", "category">>>>,
     <<<<"age", "category">>, <<"bmi", "string">>>>,
     <<<<"age", "string">>, <<"bmi", "boolean">>>>}

NextTable ==
    /\ call.n < MaxCalls
    /\ \/ CleanData
       \/ FillMissingWith({"age", "site"}, {"mean", "ffill"})
       \/ FilterDataWith(SomeFilterLists)
       \/ TransformTypesWith(SomeTypeMaps)
       \/ CreateBinsWith({"age"}, {<<1, 2>>, <<2, 1>>}, {<<"low">>}, {<<>>, <<"bmi">>})
       \/ SummarizeByGroupWith({"age"})

SpecTable == InitTable /\ [][NextTable]_vars

(***************************************************************************)
(* Claims on clean_data                                                    *)
(***************************************************************************)
\* C2: clean_data is idempotent: cleaning the result of clean_data again, with
\* the same remove_duplicates and sentinel, gives that result back.
C2_CleanIdempotent ==
    (call.op = "clean_data" /\ call.exc = "none") =>
        LET again == clean_data(heap, 2, call.remove_duplicates, call.sentinel_value)
        IN  again.exc = "none" /\ again.heap[again.ret] = heap[2]

(***************************************************************************)
(* Claims on fill_missing                                                  *)
(***************************************************************************)
\* C7: fill_missing with strategy 'mean' leaves no missing value in the target
\* column when the column has at least one value that is not missing.
C7_MeanFillsAll ==
    (call.op = "fill_missing" /\ call.strategy = "mean"
        /\ call.column \in DOMAIN orig.val
        /\ \E i \in 1..NRows(orig) : orig.val[call.column][i].k # "nan") =>
        /\ call.exc = "none"
        /\ NRows(heap[2]) = NRows(orig)
        /\ \A i \in 1..NRows(heap[2]) : heap[2].val[call.column][i].k # "nan"

\* A column with a value missing and a value present: the missing one is filled.
C7_Witness ==
    /\ call.op = "fill_missing" /\ call.strategy = "mean" /\ call.column = "age"
    /\ call.exc = "none"
    /\ \E i, j \in 1..NRows(orig) : isna(orig.val["age"][i]) /\ ~isna(orig.val["age"][j])
    /\ \E i \in 1..NRows(orig) : isna(orig.val["age"][i]) /\ heap[2].val["age"][i] = Num(2)

(***************************************************************************)
(* Claims on filter_data                                                   *)
(***************************************************************************)
\* Whether the value v of a row satisfies a filter, v = "none" for a missing
\* value; a condition that is not one of the five narrows nothing.
Satisfies(c, f) ==
    IF f.condition \notin {"equals", "greater_than", "less_than", "in_range", "in_list"}
    THEN TRUE
    ELSE /\ c.k = "num"
         /\ f.condition = "equals" => c.n = f.value[1] * c.d
         /\ f.condition = "greater_than" => c.n > f.value[1] * c.d
         /\ f.condition = "less_than" => c.n < f.value[1] * c.d
         /\ f.condition = "in_range" => c.n >= f.value[1] * c.d /\ c.n <= f.value[2] * c.d
         /\ f.condition = "in_list" => \E j \in DOMAIN f.value : c.n = f.value[j] * c.d

\* C3: filter_data returns exactly the rows that satisfy every filter, in
\* their original order; an empty filter list returns the input unchanged; and
\* filtering by f1 and then by f2 equals filtering by [f1, f2].
C3_FilterIntersection ==
    (call.op = "filter_data" /\ call.exc = "none") =>
        LET fs == call.filters
            kept == {i \in 1..NRows(orig) :
                        \A j \in DOMAIN fs : Satisfies(orig.val[fs[j].column][i], fs[j])}
        IN  /\ heap[2] = Take(orig, Ascending(kept))
            /\ fs = <<>> => heap[2] = orig
            /\ Len(fs) = 2 =>
                  LET one == filter_data(<<orig>>, 1, <<fs[1]>>)
                      two == filter_data(one.heap, one.ret, <<fs[2]>>)
                  IN  one.exc = "none" /\ two.exc = "none" /\ two.heap[two.ret] = heap[2]

\* An in_range filter that keeps both rows of a two-row table, then a
\* less_than filter that drops the first row: the second row is returned
\* under its label 1.
C3_Witness ==
    /\ call.op = "filter_data" /\ call.exc = "none"
    /\ Len(call.filters) = 2
    /\ call.filters[1].condition = "in_range" /\ call.filters[2].condition = "less_than"
    /\ NRows(orig) = 2 /\ NRows(heap[2]) = 1
    /\ heap[2].index = <<1>>
    /\ LET one == filter_data(<<orig>>, 1, <<call.filters[1]>>)
       IN  NRows(one.heap[one.ret]) = 2

(***************************************************************************)
(* Claims on create_bins                                                   *)
(***************************************************************************)
AscendingEdges(bins) == \A j \in 1..(Len(bins) - 1) : bins[j] <= bins[j + 1]

StrictlyAscending(bins) == \A j \in 1..(Len(bins) - 1) : bins[j] < bins[j + 1]

\* The intervals [e[j], e[j+1]) that hold the value of a cell.
IntervalsOf(c, bins) ==
    {j \in 1..(Len(bins) - 1) :
        c.k = "num" /\ bins[j] * c.d <= c.n /\ c.n < bins[j + 1] * c.d}

BinnedName == IF call.new_column = <<>> THEN call.column \o "_binned" ELSE call.new_column[1]

\* What the new column holds when every row has the label of the interval
\* [e[j], e[j+1]) that holds its value, and the missing marker when none does.
HalfOpenLabels ==
    /\ call.exc = "none"
    /\ NRows(heap[2]) = NRows(orig)
    /\ \A i \in 1..NRows(orig) :
          LET js == IntervalsOf(orig.val[call.column][i], call.bins)
              got == heap[2].val[BinnedName][i]
          IN  /\ Cardinality(js) <= 1
              /\ \A j \in js : got = Str(call.labels[j])
              /\ js = {} => got = NaN

\* C6: create_bins with ascending edges e[0..k] and k labels gives a row label
\* i exactly when e[i] <= value < e[i+1]: a value within the intervals gets
\* exactly one label, a value equal to a lower edge belongs to that bin, and a
\* value outside all intervals gets the missing marker.
C6_HalfOpenBins ==
    (call.op = "create_bins" /\ call.column \in DOMAIN orig.val
        /\ AscendingEdges(call.bins)
        /\ Len(call.labels) = Len(call.bins) - 1) => HalfOpenLabels

\* C6, amended: create_bins with strictly ascending edges e[0..k] and k
\* pairwise distinct labels gives a row label i exactly when
\* e[i] <= value < e[i+1]: a value within the intervals gets exactly one
\* label, a value equal to a lower edge belongs to that bin, and a value
\* outside all intervals gets the missing marker.
C6_HalfOpenBinsDistinct ==
    (call.op = "create_bins" /\ call.column \in DOMAIN orig.val
        /\ StrictlyAscending(call.bins)
        /\ Len(call.labels) = Len(call.bins) - 1
        /\ Cardinality(Range(call.labels)) = Len(call.labels)) => HalfOpenLabels

\* Edges 1, 2, 3: a value at the lower edge of the second bin gets its label,
\* and the sentinel, below the first edge, gets none.
C6_Witness ==
    /\ call.op = "create_bins" /\ call.exc = "none"
    /\ call.column = "age" /\ call.bins = <<1, 2, 3>> /\ call.new_column = <<>>
    /\ call.labels = <<"low", "high">>
    /\ NRows(orig) = 2
    /\ orig.val["age"] = <<Num(2), Num(SentinelDefault)>>
    /\ heap[2].val["age_binned"] = <<Str("high"), NaN>>

(***************************************************************************)
(* Claims on the caller's table                                            *)
(***************************************************************************)
\* C8: after any sequence of calls of clean_data, fill_missing, filter_data,
\* transform_types, create_bins and summarize_by_group on a table, also of
\* calls that raise part-way, the caller's table is as it was: same rows,
\* same columns, same cells.
C8_CallerTableUnchanged == heap[1] = orig

\* A second call, of transform_types, that raised on its second column after
\* it converted the first.
C8_Witness ==
    /\ call.op = "transform_types" /\ call.n = 2
    /\ call.exc = "ValueError"
    /\ Len(call.type_map) = 2
    /\ call.type_map[1] = <<"age", "string">>
    /\ heap = <<orig>>

====
